---- MODULE Spec2Model ----
(***************************************************************************)
(* Transaction scheduling and actuation pipeline of the IoT Network        *)
(* Optimization provider implementation: Admission (API handler),          *)
(* Scheduler, Worker and Notifier exchanging events through a broker and   *)
(* sharing one document store.                                             *)
(*                                                                         *)
(* Time is abstract: an armed timer may fire at any later step.  Every     *)
(* store call is atomic and succeeds unless the document it addresses      *)
(* does not exist or (InsertOne) already exists.  Broker publishes and     *)
(* NEF calls may fail, a bounded number of times.                          *)
(***************************************************************************)
EXTENDS Integers, Naturals, Sequences, FiniteSets, Bags, TLC

\* ---------------------------------------------------------------- bounds
MaxDup == 1        \* broker re-deliveries (duplicates, retries of a replayed ScheduleRequested)
MaxSendFail == 1   \* failing broker publishes
MaxNefFail == 1    \* failing NEF calls
MaxRestarts == 1   \* Scheduler restarts
MaxFaults == 1     \* faults of all four kinds together
MaxRunning == 2
MaxLost == 1
MaxStoreFail == 1
SmallChannelSize == 1
MaxClock == 3
MaxHeaderLen == 5
MaxDevices == 2
RetentionPeriod == 1
MaxPostFail == 1
MaxTime == 2    \* Worker handlers running concurrently

\* defaultChannelSize
ChannelSize == 100

TxIds == {"t1", "t2"}
TxOrder == <<"t1", "t2">>
Devices == {"d1", "d2"}
\* device lists in which a device is identified by its NAI or by a phone number
IdentifierLists == {<<"p2">>, <<"d1", "p2">>, <<"d2", "p2">>, <<"p2", "p2">>, <<"p1", "p2">>}
DeviceLists == {<<"d1">>, <<"d1", "d2">>, <<"d2", "d2">>}
Actions == {"start", "end"}

NoRow == [status |-> "absent"]
\* a nil EndDate, a nil TimePeriod
NoEnd == -1
NoPeriod == [startAt |-> NoEnd, endAt |-> NoEnd]
Times == 0..MaxTime
TimePeriods == {NoPeriod} \cup [startAt : Times, endAt : Times \cup {NoEnd}]
NoConfig == [maxLatency |-> 0, maxResponseTime |-> 0]
\* DummyClient.GetDeviceConfig: the configuration of a device nobody touched
DeviceDefaultConfig == [maxLatency |-> 100, maxResponseTime |-> 200]
\* config.PowerSaving defaults
PowerSavingConfig == [maxLatency |-> 1, maxResponseTime |-> 1]

Terminal == {"success", "failed"}
ActiveStatus == {"pending", "processing"}

VARIABLES
  resp,           \* Admission: HTTP status answered to the request that gets id t ("none": not submitted)
  requests,       \* the request that got slot t (published as ScheduleRequested when accepted)
  rows,           \* store, collection transactions
  deviceConfigs,  \* store, collection device_configs
  nef,            \* NEF: current configuration of each device
  queue,          \* broker: events not yet delivered (a bag)
  running,        \* Worker: handlers in progress (a bag of [msg, pc, finalStatus])
  armed,          \* Scheduler: time.AfterFunc timers not yet fired (a bag of [t, a])
  timers,         \* Scheduler.timers: keys of the timer map
  fireChan,       \* Scheduler.fireChan
  budget,         \* faults the environment may still cause
  sched,          \* Scheduler: Stop's position, timer callbacks that have started, timers armed
                  \* and not yet in the timer map, sends on a closed fireChan
  hist            \* what has happened (counters, configurations captured and restored)

vars == <<resp, requests, rows, deviceConfigs, nef, queue, running, armed, timers, fireChan, budget, sched, hist>>

\* ---------------------------------------------------------------- helpers
Range(s) == {s[i] : i \in DOMAIN s}

Msg(type, to, t, a, d, en) == [type |-> type, to |-> to, t |-> t, a |-> a, d |-> d, enabled |-> en]

Put(bag, m) == bag (+) SetToBag({m})
Take(bag, m) == bag (-) SetToBag({m})

IndexOf(devs, d) == CHOOSE i \in DOMAIN devs : devs[i] = d /\ \A j \in DOMAIN devs : devs[j] = d => i <= j


Key(t, a) == [t |-> t, a |-> a]


KeySet == [t : TxIds, a : Actions]

Spend(b, what, n) ==
  IF what = "submit" THEN [b EXCEPT !.submit = @ - n]
  ELSE [b EXCEPT ![what] = @ - n, !.faults = @ - n]

\* time.Now(): the wall clock every store write and runCleanup read
Now == budget.now

\* how many more faults of this kind the environment may cause
Left(what) == IF budget[what] < budget.faults THEN budget[what] ELSE budget.faults

\* Send: a publish to the broker succeeds, or fails while failures are left
SendOutcomes == {TRUE} \cup (IF Left("sendFail") > 0 THEN {FALSE} ELSE {})

\* a NEF call succeeds, or fails while failures are left
NefOutcomes == {TRUE} \cup (IF Left("nefFail") > 0 THEN {FALSE} ELSE {})


\* ---------------------------------------------------------------- store
\* mutant: the insert replaces an existing document (an upsert)
CreateTransactionOk_Upsert(t) == TRUE

\* InsertOne succeeds unless a document with this _id exists
CreateTransactionOk(t) == rows[t] = NoRow

\* the Transaction handleScheduleRequested builds and CreateTransaction inserts
NewTransaction(req) ==
  [status |-> "pending",
   enabled |-> req.enabled,
   hasEnd |-> req.hasEnd,
   devices |-> req.devices,
   deviceAction |-> [a \in Actions |->
                       [i \in DOMAIN req.devices |-> IF a = "start" THEN "pending" ELSE "none"]],
   actionCompleted |-> [a \in Actions |-> FALSE],
   actionNotified |-> [a \in Actions |-> FALSE],
   updatedAt |-> Now]

GetPendingTransactions == {t \in TxIds : rows[t] # NoRow /\ rows[t].status \in ActiveStatus}

\* ClaimTransaction: the filter of its UpdateOne; the update sets updatedAt only
ClaimMatches(row, a) == row # NoRow /\ ~row.actionCompleted[a]

MarkTransactionCompleted(row) == [row EXCEPT !.status = "completed", !.updatedAt = Now]

CheckDeviceConfigsExist(ids) == {d \in ids : deviceConfigs[d] = NoConfig}

CheckDeviceConflicts(ids) ==
  {t \in TxIds : /\ rows[t] # NoRow
                 /\ rows[t].status \in ActiveStatus
                 /\ Range(rows[t].devices) \cap ids # {}}

\* UpdateDeviceActionStatus, first half: FindOneAndUpdate on the matching device
SetDeviceAction(row, d, a, status) ==
  [row EXCEPT !.deviceAction[a][IndexOf(row.devices, d)] = status, !.updatedAt = Now]

\* mutant: only successful devices count as completed
AllTerminal_OnlySuccess(row, a) ==
  /\ Len(row.devices) > 0
  /\ \A i \in DOMAIN row.devices : row.deviceAction[a][i] = "success"

\* the device_configs document of device d is gone when GetDeviceOriginalState
\* looks for it: FindOne returns ErrNoDocuments. No operation of the program
\* deletes the document; it is removed in the database, outside the program
LoseOriginalState(d) ==
  /\ deviceConfigs[d] # NoConfig
  /\ Left("lost") > 0
  /\ deviceConfigs' = [deviceConfigs EXCEPT ![d] = NoConfig]
  /\ budget' = Spend(budget, "lost", 1)
  /\ UNCHANGED <<resp, requests, rows, nef, queue, running, armed, timers, fireChan, sched, hist>>

\* UpdateDeviceActionStatus: completedCount == totalDevices && totalDevices > 0
AllTerminal(row, a) ==
  /\ Len(row.devices) > 0
  /\ \A i \in DOMAIN row.devices : row.deviceAction[a][i] \in Terminal

\* mutant: the election filter without <action>ActionNotified
ElectionMatches_NoFilter(row, a) == TRUE

\* UpdateDeviceActionStatus, second half: the filter {<action>ActionNotified: false}
ElectionMatches(row, a) == row # NoRow /\ ~row.actionNotified[a]

\* ---------------------------------------------------------------- Admission
\* MockTranslator.ResolveNetworkAccessIdentifier: a supplied NAI is used as it
\* is; for a device without one the NAI is generated from its other identifiers
\* (the first 16 hex digits of their SHA-256 and "@generated.nai"): the phone
\* number p1 stands for identifiers whose generated NAI is d1, p2 for d2
Resolve(device) ==
  CASE device = "p1" -> "d1"
    [] device = "p2" -> "d2"
    [] OTHER -> device

\* mutant: no check for a repeated device
HasDuplicate_Never(devs) == FALSE

\* ActivatePowerSaving: the seen map over the resolved ids
HasDuplicate(devs) == \E i, j \in DOMAIN devs : i < j /\ devs[i] = devs[j]

\* mutant: enabled = false is admitted without the stored-configuration check
Admission_NoConfigCheck(devs, en) ==
  IF HasDuplicate(devs) THEN "400"
  ELSE IF CheckDeviceConflicts(Range(devs)) # {} THEN "409"
  ELSE "ok"

\* ActivatePowerSaving up to the conflict check: the status it answers, or "ok"
Admission(devs, en) ==
  IF HasDuplicate(devs) THEN "400"
  ELSE IF ~en /\ CheckDeviceConfigsExist(Range(devs)) # {} THEN "400"
  ELSE IF CheckDeviceConflicts(Range(devs)) # {} THEN "409"
  ELSE "ok"

\* mutant: a startAt in the past is rejected whatever endAt is
TimeVerdict_RejectsPastStart(tp, now) ==
  IF tp = NoPeriod THEN "ok"
  ELSE IF tp.endAt # NoEnd /\ ~(tp.endAt > tp.startAt) THEN "400"
  ELSE IF tp.startAt < now THEN "400"
  ELSE "ok"

\* ActivatePowerSaving: the checks on the timePeriod, now being time.Now()
TimeVerdict(tp, now) ==
  IF tp = NoPeriod THEN "ok"
  ELSE IF tp.endAt # NoEnd /\ ~(tp.endAt > tp.startAt) THEN "400"
  ELSE IF tp.startAt < now /\ tp.endAt # NoEnd /\ tp.endAt < now THEN "400"
  ELSE "ok"

\* ActivatePowerSaving: StartAt and EndAt of the ScheduleRequested event
StartAt(tp, now) == IF tp = NoPeriod THEN now ELSE tp.startAt
HasEndAt(tp) == tp # NoPeriod /\ tp.endAt # NoEnd

\* handleScheduleRequested: startDelay, now being the handler's time.Now()
StartDelay(startAt, now) == IF startAt - now < 0 THEN 0 ELSE startAt - now

\* ActivatePowerSaving for the request (devs, en, tp, sink) at time now, devs
\* being the devices as the client identifies them
SubmitTimed(t, devs, en, tp, now, sink) ==
  /\ resp[t] = "none"
  /\ budget.submit > 0
  /\ \A i, j \in DOMAIN TxOrder : (i < j /\ TxOrder[j] = t) => resp[TxOrder[i]] # "none"
  /\ requests' = [requests EXCEPT ![t] = [devices |-> [i \in DOMAIN devs |-> Resolve(devs[i])],
                                          identifiers |-> devs,
                                          enabled |-> en, hasEnd |-> HasEndAt(tp),
                                          sink |-> sink, timePeriod |-> tp, now |-> now]]
  /\ LET ids == [i \in DOMAIN devs |-> Resolve(devs[i])]
         verdict == IF Admission(ids, en) # "ok" THEN Admission(ids, en)
                    ELSE TimeVerdict(tp, now) IN
     IF verdict # "ok"
     THEN /\ resp' = [resp EXCEPT ![t] = verdict]
          /\ budget' = Spend(budget, "submit", 1)
          /\ UNCHANGED queue
     ELSE \E sent \in SendOutcomes :
          IF sent
          THEN /\ resp' = [resp EXCEPT ![t] = "202"]
               /\ queue' = Put(queue, Msg("SR", "scheduler", t, "start", "-", en))
               /\ budget' = Spend(budget, "submit", 1)
          ELSE /\ resp' = [resp EXCEPT ![t] = "500"]
               /\ budget' = Spend(Spend(budget, "submit", 1), "sendFail", 1)
               /\ UNCHANGED queue
  /\ UNCHANGED <<rows, deviceConfigs, nef, running, armed, timers, fireChan, sched, hist>>

\* a request sent at time 1 with no timePeriod, or with one that starts at 1 and
\* ends at 2
SubmitTo(t, devs, en, he, sink) ==
  SubmitTimed(t, devs, en, IF he THEN [startAt |-> 1, endAt |-> 2] ELSE NoPeriod, 1, sink)

\* a request whose subscription has a sink
Submit(t, devs, en, he) == SubmitTo(t, devs, en, he, TRUE)

\* mutant: a start success is reported as Success also when an end is scheduled
DeviceStatus_IgnoresEndAt(row, i) ==
  LET st == row.deviceAction["start"][i]
      en == row.deviceAction["end"][i]
      shown == IF en # "none" THEN en ELSE st
  IN CASE shown = "success" -> "Success"
       [] shown = "in-progress" -> "InProgress"
       [] shown \in {"pending", "none"} -> "Pending"
       [] OTHER -> "Failed"

\* GetPowerSaving: the status reported for device i of the row
DeviceStatus(row, i) ==
  LET st == row.deviceAction["start"][i]
      en == row.deviceAction["end"][i]
  IN IF en # "none"
     THEN (CASE en = "success" -> "Success"
             [] en = "in-progress" -> "InProgress"
             [] en = "pending" -> "Pending"
             [] OTHER -> "Failed")
     ELSE (CASE st = "success" -> (IF row.hasEnd THEN "InProgress" ELSE "Success")
             [] st = "in-progress" -> "InProgress"
             [] st = "pending" -> "Pending"
             [] st = "none" -> "Pending"
             [] OTHER -> "Failed")

\* mutant: the query answers 200 for every id
GetPowerSaving_AlwaysFound(t) == [code |-> "200", activationStatus |-> <<>>]

\* GetPowerSaving: 404 NOT_FOUND when GetTransaction finds no row
GetPowerSaving(t) ==
  IF rows[t] = NoRow
  THEN [code |-> "404", activationStatus |-> <<>>]
  ELSE [code |-> "200",
        activationStatus |-> [i \in DOMAIN rows[t].devices |->
                                [device |-> rows[t].devices[i], status |-> DeviceStatus(rows[t], i)]]]

\* ---------------------------------------------------------------- broker
\* at-least-once delivery: the broker delivers an event once more
Duplicate(m) ==
  /\ m \in BagToSet(queue)
  /\ Left("dup") > 0
  /\ queue' = Put(queue, m)
  /\ budget' = Spend(budget, "dup", 1)
  /\ UNCHANGED <<resp, requests, rows, deviceConfigs, nef, running, armed, timers, fireChan, hist, sched>>

\* a handler returned an error for m: the broker retries while retries are left
Nack(q, m) == IF Left("dup") > 0 THEN q ELSE Take(q, m)
NackCost == IF Left("dup") > 0 THEN 1 ELSE 0

\* ---------------------------------------------------------------- Scheduler
\* the StartAt field of the ScheduleRequested event of transaction t
EventStartAt(t) == StartAt(requests[t].timePeriod, requests[t].now)

\* time.Now() in a handler of that event: not before the request was sent
HandlerTimes(t) == {now \in Times : now >= requests[t].now}

\* sendErrorNotification: publishes PowerSavingError, a failed publish is logged only
SendErrorNotification(q, t, a, sent) ==
  IF requests[t].sink /\ sent THEN Put(q, Msg("PSE", "notifier", t, a, "-", FALSE)) ELSE q

HandleScheduleRequested(m) ==
  /\ m \in BagToSet(queue)
  /\ m.type = "SR"
  /\ IF CreateTransactionOk(m.t)
     THEN /\ rows' = [rows EXCEPT ![m.t] = NewTransaction(requests[m.t])]
          /\ armed' = Put(armed, Key(m.t, "start"))
          /\ timers' = timers \cup {Key(m.t, "start")}
          /\ queue' = Take(queue, m)
          /\ \E now \in HandlerTimes(m.t) :
               hist' = [hist EXCEPT !.srHandled[m.t] = @ + 1,
                                    !.created[m.t] = @ + 1,
                                    !.srArmed[m.t] = @ + 1,
                                    !.startDelay[m.t] = StartDelay(EventStartAt(m.t), now)]
          /\ UNCHANGED budget
     ELSE \E sent \in (IF requests[m.t].sink THEN SendOutcomes ELSE {TRUE}) :
          /\ queue' = SendErrorNotification(Nack(queue, m), m.t, "start", sent)
          /\ budget' = Spend(Spend(budget, "dup", NackCost), "sendFail", IF sent THEN 0 ELSE 1)
          /\ hist' = [hist EXCEPT !.srHandled[m.t] = @ + 1]
          /\ UNCHANGED <<rows, armed, timers>>
  /\ UNCHANGED <<resp, requests, deviceConfigs, nef, running, fireChan, sched>>

HandleAllDevicesCompleted(m) ==
  /\ m \in BagToSet(queue)
  /\ m.type = "ADC"
  /\ m.to = "scheduler"
  /\ queue' = Take(queue, m)
  /\ IF m.a = "start" /\ rows[m.t] # NoRow /\ rows[m.t].hasEnd
     THEN /\ armed' = Put(armed, Key(m.t, "end"))
          /\ timers' = timers \cup {Key(m.t, "end")}
     ELSE UNCHANGED <<armed, timers>>
  /\ UNCHANGED <<resp, requests, rows, deviceConfigs, nef, running, fireChan, budget, hist, sched>>

\* handleScheduleRequested, statement by statement: the row is created and
\* time.AfterFunc arms the start timer; the timer map gets its entry in a later
\* statement (TrackTimer), so a timer whose delay is zero may fire in between
ArmStartTimer(m) ==
  /\ m \in BagToSet(queue)
  /\ m.type = "SR"
  /\ CreateTransactionOk(m.t)
  /\ rows' = [rows EXCEPT ![m.t] = NewTransaction(requests[m.t])]
  /\ armed' = Put(armed, Key(m.t, "start"))
  /\ queue' = Take(queue, m)
  /\ sched' = [sched EXCEPT !.tracking = Put(@, Key(m.t, "start"))]
  /\ \E now \in HandlerTimes(m.t) :
       hist' = [hist EXCEPT !.srHandled[m.t] = @ + 1,
                            !.created[m.t] = @ + 1,
                            !.srArmed[m.t] = @ + 1,
                            !.startDelay[m.t] = StartDelay(EventStartAt(m.t), now)]
  /\ UNCHANGED <<resp, requests, deviceConfigs, nef, running, timers, fireChan, budget>>

\* handleScheduleRequested: s.timers[startTimerKey] = startTimer, under the mutex
TrackTimer(k) ==
  /\ k \in BagToSet(sched.tracking)
  /\ timers' = timers \cup {k}
  /\ sched' = [sched EXCEPT !.tracking = Take(@, k)]
  /\ UNCHANGED <<resp, requests, rows, deviceConfigs, nef, queue, running, armed, fireChan, budget, hist>>

\* a timer fires: its callback enqueueScheduleAction sends on fireChan (blocking
\* while the channel is full) and removes the key from the timer map
EnqueueScheduleAction(k) ==
  /\ k \in BagToSet(armed)
  /\ sched.pc = "run"
  /\ Len(fireChan) < sched.capacity
  /\ armed' = Take(armed, k)
  /\ fireChan' = Append(fireChan, k)
  /\ timers' = timers \ {k}
  /\ hist' = [hist EXCEPT !.enq[k] = @ + 1]
  /\ UNCHANGED <<resp, requests, rows, deviceConfigs, nef, queue, running, budget, sched>>

\* fireSchedule: the enabled value of the events of action a
\* mutant: the end phase carries the transaction's enabled unchanged
EnabledValue_NoInvert(row, a) == row.enabled

EnabledValue(row, a) == IF a = "end" THEN ~row.enabled ELSE row.enabled

\* mutant: the loop ends at the first Send that fails
FanOut_StopAtFailure(t, a, row, lost) ==
  SetToBag({Msg("DAR", "worker", t, a, row.devices[i], EnabledValue(row, a)) :
              i \in {j \in DOMAIN row.devices : \A l \in lost : j < l}})

\* fireSchedule: the events whose Send succeeded, lost being the indexes whose Send failed
FanOut(t, a, row, lost) ==
  SetToBag({Msg("DAR", "worker", t, a, row.devices[i], EnabledValue(row, a)) :
              i \in DOMAIN row.devices \ lost})

\* a pool worker takes the head of fireChan and runs fireSchedule
FireSchedule ==
  /\ fireChan # <<>>
  /\ sched.pc # "returned"
  /\ fireChan' = Tail(fireChan)
  /\ LET k == Head(fireChan)
         row == rows[k.t]
     IN IF ClaimMatches(row, k.a)
        THEN \E lost \in SUBSET (DOMAIN row.devices) :
             /\ Cardinality(lost) <= Left("sendFail")
             /\ queue' = queue (+) FanOut(k.t, k.a, row, lost)
             /\ budget' = Spend(budget, "sendFail", Cardinality(lost))
             /\ hist' = [hist EXCEPT !.fanouts[k] = @ + 1]
             /\ rows' = [rows EXCEPT ![k.t].updatedAt = Now]
        ELSE UNCHANGED <<queue, budget, hist, rows>>
  /\ UNCHANGED <<resp, requests, deviceConfigs, nef, running, armed, timers, sched>>

\* ---------------------------------------------------------------- retention
\* time passes
Tick ==
  /\ Now < MaxClock
  /\ budget' = [budget EXCEPT !.now = @ + 1]
  /\ UNCHANGED <<resp, requests, rows, deviceConfigs, nef, queue, running, armed, timers, fireChan, sched, hist>>

\* mutant: the filter without the status
Expired_AnyStatus(row, olderThan) == row # NoRow /\ row.updatedAt < olderThan

\* DeleteOldTransactions: the filter of its DeleteMany
Expired(row, olderThan) ==
  /\ row # NoRow
  /\ row.status \in {"completed", "failed"}
  /\ row.updatedAt < olderThan

DeleteOldTransactions(olderThan) ==
  [t \in TxIds |-> IF Expired(rows[t], olderThan) THEN NoRow ELSE rows[t]]

\* runCleanup: cutoffTime
CutoffTime == Now - RetentionPeriod

\* cleanupWorker: runCleanup once at Start and at every tick of its ticker, until stopCh closes
RunCleanup ==
  /\ sched.pc = "run"
  /\ rows' = DeleteOldTransactions(CutoffTime)
  /\ UNCHANGED <<resp, requests, deviceConfigs, nef, queue, running, armed, timers, fireChan, budget, sched, hist>>

\* loadPendingSchedules: the timers it arms for transaction t
RecoveredTimers(t) ==
  (IF ~rows[t].actionCompleted["start"] THEN {Key(t, "start")} ELSE {})
  \cup
  (IF rows[t].hasEnd /\ rows[t].actionCompleted["start"] /\ ~rows[t].actionCompleted["end"]
   THEN {Key(t, "end")} ELSE {})

\* the Scheduler process ends (Stop, or a crash) and a new instance runs Start
Restart ==
  /\ Left("restart") > 0
  /\ budget' = Spend(budget, "restart", 1)
  /\ LET loaded == UNION {RecoveredTimers(t) : t \in GetPendingTransactions} IN
     /\ armed' = SetToBag(loaded)
     /\ timers' = loaded
  /\ fireChan' = <<>>
  /\ UNCHANGED <<resp, requests, rows, deviceConfigs, nef, queue, running, hist, sched>>


\* Stop, statement by statement: close(stopCh); timer.Stop() and delete for every
\* entry of the timer map; close(fireChan)
StopChClosed == sched.pc # "run"
FireChanClosed == sched.pc \in {"stopped", "returned"}

StopCloseStopCh ==
  /\ sched.pc = "run"
  /\ sched' = [sched EXCEPT !.pc = "stopCh"]
  /\ UNCHANGED <<resp, requests, rows, deviceConfigs, nef, queue, running, armed, timers, fireChan, budget, hist>>

\* timer.Stop() keeps a timer that has not fired from firing; a callback that has
\* started goes on
StopCancelTimers ==
  /\ sched.pc = "stopCh"
  /\ sched' = [sched EXCEPT !.pc = "timers"]
  /\ armed' = EmptyBag
  /\ timers' = {}
  /\ UNCHANGED <<resp, requests, rows, deviceConfigs, nef, queue, running, fireChan, budget, hist>>

StopCloseFireChan ==
  /\ sched.pc = "timers"
  /\ sched' = [sched EXCEPT !.pc = "stopped"]
  /\ UNCHANGED <<resp, requests, rows, deviceConfigs, nef, queue, running, armed, timers, fireChan, budget, hist>>

\* Stop: s.wg.Wait() returns when the pool workers and the cleanup worker have
\* exited, and Stop returns; a pool worker runs one fireSchedule to its end first
StopWait ==
  /\ sched.pc = "stopped"
  /\ sched' = [sched EXCEPT !.pc = "returned"]
  /\ UNCHANGED <<resp, requests, rows, deviceConfigs, nef, queue, running, armed, timers, fireChan, budget, hist>>

Stop == StopCloseStopCh \/ StopCancelTimers \/ StopCloseFireChan \/ StopWait

\* a timer fires: time.AfterFunc starts enqueueScheduleAction in its own goroutine
TimerFires(k) ==
  /\ k \in BagToSet(armed)
  /\ armed' = Take(armed, k)
  /\ sched' = [sched EXCEPT !.callbacks = Put(@, [k |-> k, pc |-> "select"])]
  /\ UNCHANGED <<resp, requests, rows, deviceConfigs, nef, queue, running, timers, fireChan, budget, hist>>

\* enqueueScheduleAction: the cases of its select that can proceed.  A send on a
\* closed channel can proceed (it panics); among the cases that can proceed the
\* select chooses one at random.  A callback blocked in the second select is
\* woken by close(stopCh), which Stop executes before close(fireChan).
ReadyCases(c) ==
  (IF Len(fireChan) < sched.capacity \/ (FireChanClosed /\ c.pc = "select") THEN {"send"} ELSE {})
  \cup (IF StopChClosed THEN {"stop"} ELSE {})

\* mutant: a callback that finds the channel full gives up its action
AfterDefault_Drop(callbacks, c) == Take(callbacks, c)

\* enqueueScheduleAction, default case of the first select: the callback goes on
\* to the second select, which has no default and blocks
AfterDefault(callbacks, c) == Put(Take(callbacks, c), [c EXCEPT !.pc = "blocked"])

\* enqueueScheduleAction of a callback that has started: the select, then the
\* delete from the timer map
EnqueueSelect(c, chosen) ==
  /\ c \in BagToSet(sched.callbacks)
  /\ ~sched.sentOnClosed
  /\ IF ReadyCases(c) = {}
     THEN /\ c.pc = "select"
          /\ chosen = "default"
          /\ sched' = [sched EXCEPT !.callbacks = AfterDefault(@, c)]
          /\ hist' = [hist EXCEPT !.blocked = @ \cup {c.k}]
          /\ UNCHANGED <<fireChan, timers>>
     ELSE /\ chosen \in ReadyCases(c)
          /\ timers' = timers \ {c.k}
          /\ IF chosen = "send" /\ ~FireChanClosed
             THEN /\ fireChan' = Append(fireChan, c.k)
                  /\ hist' = [hist EXCEPT !.enq[c.k] = @ + 1]
                  /\ sched' = [sched EXCEPT !.callbacks = Take(@, c)]
             ELSE /\ sched' = [sched EXCEPT !.callbacks = Take(@, c),
                                            !.sentOnClosed = chosen = "send"]
                  /\ UNCHANGED <<fireChan, hist>>
  /\ UNCHANGED <<resp, requests, rows, deviceConfigs, nef, queue, running, armed, budget>>


\* ---------------------------------------------------------------- Worker
Handler(m, pc, final) == [msg |-> m, pc |-> pc, finalStatus |-> final]

\* handleActuationRequest, first store call of processDevice:
\* UpdateDeviceActionStatus(..., "in-progress"), whose result is ignored
WorkerReceive(m) ==
  /\ m \in BagToSet(queue)
  /\ m.type = "DAR"
  /\ rows[m.t] # NoRow
  /\ BagCardinality(running) < MaxRunning
  /\ queue' = Take(queue, m)
  /\ rows' = [rows EXCEPT ![m.t] = SetDeviceAction(@, m.d, m.a, "in-progress")]
  /\ running' = Put(running, Handler(m, "operate", "success"))
  /\ UNCHANGED <<resp, requests, deviceConfigs, nef, armed, timers, fireChan, budget, hist, sched>>

\* mutant: the two end-phase operations exchanged
Operation_EndSwapped(a, en) ==
  IF a = "start"
  THEN (IF en THEN "capture-apply" ELSE "restore")
  ELSE (IF en THEN "apply" ELSE "restore")

\* processDevice: the operation chosen by (action, enabled)
Operation(a, en) ==
  IF a = "start"
  THEN (IF en THEN "capture-apply" ELSE "restore")
  ELSE (IF en THEN "restore" ELSE "apply")

\* mutant: the original state is written also when GetDeviceConfig failed
Captures_Always(op, res) == op = "capture-apply"

\* processDevice, (start, enabled): StoreDeviceOriginalState takes effect when
\* GetDeviceConfig succeeded and the store call did not fail
Captures(op, res) == op = "capture-apply" /\ res \notin {"getFail", "storeFail"}

\* the call that failed in a run with outcome res
FailedCall(res) ==
  CASE res = "getFail" -> "GetDeviceConfig"
    [] res = "setFail" -> "SetDeviceConfig"
    [] res = "storeFail" -> "StoreDeviceOriginalState"
    [] OTHER -> "none"

\* processDevice: the NEF calls and the original-state read or write of one run.
\* res: "ok", "getFail" (GetDeviceConfig failed), "setFail" (SetDeviceConfig failed)
\* or "storeFail" (StoreDeviceOriginalState failed)
WorkerOperate(h, res) ==
  /\ h \in BagToSet(running)
  /\ h.pc = "operate"
  /\ res \in {"getFail", "setFail"} => Left("nefFail") > 0
  /\ res = "storeFail" => Left("storeFail") > 0
  /\ LET d == h.msg.d
         op == Operation(h.msg.a, h.msg.enabled)
         missing == op = "restore" /\ deviceConfigs[d] = NoConfig
         final == IF missing \/ res # "ok" THEN "failed" ELSE "success"
     IN /\ res \in {"getFail", "storeFail"} => op = "capture-apply"
        /\ missing => res = "ok"
        /\ deviceConfigs' = IF Captures(op, res)
                            THEN [deviceConfigs EXCEPT ![d] = nef[d]]
                            ELSE deviceConfigs
        /\ nef' = IF final = "success"
                  THEN [nef EXCEPT ![d] = IF op = "restore" THEN deviceConfigs[d] ELSE PowerSavingConfig]
                  ELSE nef
        /\ running' = Put(Take(running, h), Handler(h.msg, "record", final))
        /\ budget' = IF res = "ok" THEN budget
                     ELSE Spend(budget, IF res = "storeFail" THEN "storeFail" ELSE "nefFail", 1)
        /\ hist' = [hist EXCEPT
                      !.captured[d] = IF op = "capture-apply" /\ res = "ok" /\ @ = NoConfig
                                      THEN nef[d] ELSE @,
                      !.restored[d] = IF op = "restore" /\ ~missing
                                      THEN @ \cup {deviceConfigs[d]} ELSE @,
                      !.failedCall = IF res = "ok" THEN @ ELSE FailedCall(res)]
  /\ UNCHANGED <<resp, requests, rows, queue, armed, timers, fireChan, sched>>

\* UpdateDeviceActionStatus(..., finalStatus): FindOneAndUpdate and the count over its
\* post-image; without a document FindOneAndUpdate fails and the event stays with the broker
WorkerRecord(h) ==
  /\ h \in BagToSet(running)
  /\ h.pc = "record"
  /\ rows[h.msg.t] # NoRow
  /\ LET row == SetDeviceAction(rows[h.msg.t], h.msg.d, h.msg.a, h.finalStatus) IN
     /\ rows' = [rows EXCEPT ![h.msg.t] = row]
     /\ running' = IF AllTerminal(row, h.msg.a)
                   THEN Put(Take(running, h), Handler(h.msg, "elect", h.finalStatus))
                   ELSE Take(running, h)
  /\ UNCHANGED <<resp, requests, deviceConfigs, nef, queue, armed, timers, fireChan, budget, hist, sched>>

\* processDevice: UpdateDeviceActionStatus(..., "in-progress") fails; the handler
\* returns the error and the event stays with the broker
WorkerReceiveFails(m) ==
  /\ m \in BagToSet(queue)
  /\ m.type = "DAR"
  /\ BagCardinality(running) < MaxRunning
  /\ Left("storeFail") > 0
  /\ budget' = Spend(budget, "storeFail", 1)
  /\ UNCHANGED <<resp, requests, rows, deviceConfigs, nef, queue, running, armed, timers, fireChan, hist, sched>>

\* processDevice: UpdateDeviceActionStatus(..., finalStatus) fails; the handler
\* returns the error and the broker delivers the event again
WorkerRecordFails(h) ==
  /\ h \in BagToSet(running)
  /\ h.pc = "record"
  /\ Left("storeFail") > 0
  /\ running' = Take(running, h)
  /\ queue' = Put(queue, h.msg)
  /\ budget' = Spend(budget, "storeFail", 1)
  /\ UNCHANGED <<resp, requests, rows, deviceConfigs, nef, armed, timers, fireChan, hist, sched>>

\* UpdateDeviceActionStatus(..., finalStatus): the UpdateOne that elects the notifier;
\* allCompleted is MatchedCount == 1
WorkerElect(h) ==
  /\ h \in BagToSet(running)
  /\ h.pc = "elect"
  /\ IF ElectionMatches(rows[h.msg.t], h.msg.a)
     THEN /\ rows' = [rows EXCEPT ![h.msg.t].actionNotified[h.msg.a] = TRUE,
                                  ![h.msg.t].updatedAt = Now]
          /\ running' = Put(Take(running, h), Handler(h.msg, "publish", h.finalStatus))
          /\ hist' = [hist EXCEPT !.allCompleted[Key(h.msg.t, h.msg.a)] = @ + 1]
     ELSE /\ running' = Take(running, h)
          /\ hist' = [hist EXCEPT !.lostElection[Key(h.msg.t, h.msg.a)] = TRUE]
          /\ UNCHANGED rows
  /\ UNCHANGED <<resp, requests, deviceConfigs, nef, queue, armed, timers, fireChan, budget, sched>>

\* processDevice, allComplete: Send of AllDevicesCompleted; on failure the handler
\* returns the error and the broker delivers the DeviceActuationRequest again
WorkerPublish(h, sent) ==
  /\ h \in BagToSet(running)
  /\ h.pc = "publish"
  /\ sent \in SendOutcomes
  /\ IF sent
     THEN /\ queue' = Put(Put(queue, Msg("ADC", "scheduler", h.msg.t, h.msg.a, "-", FALSE)),
                          Msg("ADC", "notifier", h.msg.t, h.msg.a, "-", FALSE))
          /\ running' = Put(Take(running, h), Handler(h.msg, "mark", h.finalStatus))
          /\ hist' = [hist EXCEPT !.published[Key(h.msg.t, h.msg.a)] = @ + 1]
          /\ UNCHANGED budget
     ELSE /\ queue' = Put(queue, h.msg)
          /\ running' = Take(running, h)
          /\ budget' = Spend(budget, "sendFail", 1)
          /\ UNCHANGED hist
  /\ UNCHANGED <<resp, requests, rows, deviceConfigs, nef, armed, timers, fireChan, sched>>

\* mutant: only the end phase completes the transaction
ShouldComplete_EndOnly(row, a) == a = "end"

\* markTransactionCompleteIfDone: shouldComplete
ShouldComplete(row, a) == (a = "start" /\ ~row.hasEnd) \/ a = "end"

WorkerMark(h) ==
  /\ h \in BagToSet(running)
  /\ h.pc = "mark"
  /\ rows' = [rows EXCEPT ![h.msg.t] = IF @ # NoRow /\ ShouldComplete(@, h.msg.a)
                                       THEN MarkTransactionCompleted(@) ELSE @]
  /\ running' = Take(running, h)
  /\ UNCHANGED <<resp, requests, deviceConfigs, nef, queue, armed, timers, fireChan, budget, hist, sched>>

\* ---------------------------------------------------------------- Notifier
\* handleAllDevicesCompleted: the status reported for device i of the row, taken
\* from the action the event names
CallbackStatus(row, a, i) ==
  LET st == row.deviceAction[a][i]
  IN CASE st = "success" -> "Success"
       [] st = "in-progress" -> "InProgress"
       [] st = "pending" -> "Pending"
       [] st = "none" -> "Pending"
       [] OTHER -> "Failed"

\* handleAllDevicesCompleted: the activationStatus array of the callback
ActivationStatus(t, a) ==
  [i \in DOMAIN rows[t].devices |->
     [device |-> rows[t].devices[i], status |-> CallbackStatus(rows[t], a, i)]]

\* what the POST to the sink can end in: a status code, or no response at all
PostOutcomes ==
  {"202"} \cup (IF Left("postFail") > 0
                THEN {"200", "204", "410", "429", "404", "500", "transport"}
                ELSE {})

\* mutant: only a 2xx answer is acknowledged, the others go back to the broker
Acknowledges_Only2xx(outcome) == outcome \in {"200", "202", "204"}

\* handleAllDevicesCompleted / handleErrorNotification after client.Do: every
\* branch returns nil
Acknowledges(outcome) == TRUE

\* handleAllDevicesCompleted / handleErrorNotification: with an empty sink the
\* handler returns nil at once; otherwise one POST to the sink. When
\* GetTransactionDevices finds no document the handler returns the error and the
\* event stays with the broker
NotifierHandle(m, outcome) ==
  /\ m \in BagToSet(queue)
  /\ m.to = "notifier"
  /\ (m.type = "ADC" /\ requests[m.t].sink) => rows[m.t] # NoRow
  /\ IF ~requests[m.t].sink
     THEN /\ outcome = "202"
          /\ queue' = Take(queue, m)
          /\ UNCHANGED <<hist, budget>>
     ELSE /\ queue' = IF Acknowledges(outcome) THEN Take(queue, m) ELSE queue
          /\ budget' = IF outcome = "202" THEN budget ELSE Spend(budget, "postFail", 1)
          /\ hist' = IF m.type = "ADC"
                     THEN [hist EXCEPT !.posts[Key(m.t, m.a)] = @ + 1, !.sinkAnswer = outcome,
                                       !.callback = ActivationStatus(m.t, m.a)]
                     ELSE [hist EXCEPT !.errorPosts[m.t] = @ + 1, !.sinkAnswer = outcome]
  /\ UNCHANGED <<resp, requests, rows, deviceConfigs, nef, running, armed, timers, fireChan, sched>>

\* ---------------------------------------------------------------- middleware
\* An Authorization header is a sequence of pieces of text: the word Bearer with
\* its blank, other text that holds a blank, a dot, and blank-free base64url
\* text, one piece per JSON document it encodes
Bearer == "Bearer "
OtherText == "Basic "
Dot == "."

\* base64.RawURLEncoding.DecodeString of one piece of base64url text
Decoded ==
  [subTom |-> [json |-> TRUE, sub |-> "string", value |-> "tom"],
   subEmpty |-> [json |-> TRUE, sub |-> "string", value |-> ""],
   subNumber |-> [json |-> TRUE, sub |-> "number", value |-> "7"],
   noSub |-> [json |-> TRUE, sub |-> "absent", value |-> ""],
   notJson |-> [json |-> FALSE, sub |-> "absent", value |-> ""]]

Base64Text == DOMAIN Decoded

HeaderPieces == {Bearer, OtherText, Dot} \cup Base64Text

Paths == {"/healthz", "/features/power-saving"}

\* strings.Split(s, sep): the pieces between the occurrences of sep, one more
\* than there are occurrences
RECURSIVE Split(_, _)
Split(s, sep) ==
  IF \A i \in DOMAIN s : s[i] # sep THEN <<s>>
  ELSE LET i == CHOOSE j \in DOMAIN s : s[j] = sep /\ \A l \in 1..(j - 1) : s[l] # sep
       IN <<SubSeq(s, 1, i - 1)>> \o Split(SubSeq(s, i + 1, Len(s)), sep)

\* DecodeString then json.Unmarshal into a map: text that is not base64url does
\* not decode; the empty text and the text of several documents decode to bytes
\* that are not one JSON document
Unmarshal(segment) ==
  IF Len(segment) = 1 /\ segment[1] \in Base64Text /\ Decoded[segment[1]].json
  THEN Decoded[segment[1]]
  ELSE [json |-> FALSE, sub |-> "absent", value |-> ""]

\* claims["sub"].(string)
SubFound(claims) == claims.sub = "string"

\* extractSubFromJWT
ExtractSubFromJWT(authorization) ==
  LET splitToken == Split(authorization, Bearer)
      parts == Split(splitToken[2], Dot)
      claims == Unmarshal(parts[2])
  IN IF Len(splitToken) # 2 THEN [sub |-> "", status |-> 400]
     ELSE IF Len(parts) < 2 THEN [sub |-> "", status |-> 400]
     ELSE IF ~claims.json THEN [sub |-> "", status |-> 400]
     ELSE IF SubFound(claims) THEN [sub |-> claims.value, status |-> 0]
     ELSE [sub |-> "", status |-> 400]

\* no request has reached the middleware
NoExchange == [path |-> "", authorization |-> <<>>, code |-> 0, called |-> FALSE,
               hasSub |-> FALSE, sub |-> ""]

\* JWT: the exchange it ends in; the next handler answers 200
JWT(path, authorization) ==
  LET r == ExtractSubFromJWT(authorization) IN
  IF path = "/healthz"
  THEN [path |-> path, authorization |-> authorization, code |-> 200, called |-> TRUE,
        hasSub |-> FALSE, sub |-> ""]
  ELSE IF r.status # 0
  THEN [path |-> path, authorization |-> authorization, code |-> r.status, called |-> FALSE,
        hasSub |-> FALSE, sub |-> ""]
  ELSE [path |-> path, authorization |-> authorization, code |-> 200, called |-> TRUE,
        hasSub |-> TRUE, sub |-> r.sub]

\* ---------------------------------------------------------------- validation
\* the address texts a request may carry: a dotted quad, an IPv6 literal, the
\* IPv6 literal of an IPv4-mapped address, a malformed text and the empty text
Literals == {"192.0.2.1", "2001:db8::1", "::ffff:192.0.2.1", "2001:db8:::", ""}

\* a nil pointer
Absent == "absent"

\* net.ParseIP: nil for text that is no address; otherwise the 16-byte address,
\* which for a dotted quad is the IPv4-mapped one
ParseIP(ip) ==
  CASE ip = "192.0.2.1" -> [nil |-> FALSE, v4InV6 |-> TRUE]
    [] ip = "::ffff:192.0.2.1" -> [nil |-> FALSE, v4InV6 |-> TRUE]
    [] ip = "2001:db8::1" -> [nil |-> FALSE, v4InV6 |-> FALSE]
    [] OTHER -> [nil |-> TRUE, v4InV6 |-> FALSE]

\* IP.To4: the 4-byte form of an address with the IPv4-in-IPv6 prefix, nil otherwise
To4IsNil(parsed) == ~parsed.v4InV6

\* validateIPv4Format: TRUE when it returns an error
ValidateIPv4Format(ip) ==
  LET parsed == ParseIP(ip) IN parsed.nil \/ To4IsNil(parsed)

\* validateIPv6Format: TRUE when it returns an error
ValidateIPv6Format(ip) ==
  LET parsed == ParseIP(ip) IN parsed.nil \/ ~To4IsNil(parsed)

\* validateDevice: TRUE when it returns an error
ValidateDevice(device) ==
  \/ device.publicAddress # Absent /\ ValidateIPv4Format(device.publicAddress)
  \/ device.privateAddress # Absent /\ ValidateIPv4Format(device.privateAddress)
  \/ device.ipv6Address # Absent /\ ValidateIPv6Format(device.ipv6Address)

\* validateSinkCredential: TRUE when it returns an error; the credential is
\* nil, or holds a zero or a non-zero accessTokenExpiresUtc
ValidateSinkCredential(cred) == cred # "nil" /\ cred = "zero"

\* validatePowerSavingRequest: TRUE when it returns an error
ValidatePowerSavingRequest(req) ==
  \/ \E i \in DOMAIN req.devices : ValidateDevice(req.devices[i])
  \/ ValidateSinkCredential(req.sinkCredential)

AddressedDevices ==
  [publicAddress : Literals \cup {Absent}, privateAddress : Literals \cup {Absent},
   ipv6Address : Literals \cup {Absent}]

\* no request has been validated
NoValidation == [request |-> [devices |-> <<>>, sinkCredential |-> "nil"], done |-> FALSE,
                 error |-> FALSE]

\* ---------------------------------------------------------------- specification
NoRequest == [devices |-> <<>>, identifiers |-> <<>>, enabled |-> FALSE, hasEnd |-> FALSE, sink |-> FALSE,
              timePeriod |-> NoPeriod, now |-> 0]

InitHist ==
  [allCompleted |-> [k \in KeySet |-> 0],
   lostElection |-> [k \in KeySet |-> FALSE],
   published |-> [k \in KeySet |-> 0],
   fanouts |-> [k \in KeySet |-> 0],
   posts |-> [k \in KeySet |-> 0],
   enq |-> [k \in KeySet |-> 0],
   srHandled |-> [t \in TxIds |-> 0],
   created |-> [t \in TxIds |-> 0],
   srArmed |-> [t \in TxIds |-> 0],
   startDelay |-> [t \in TxIds |-> 0],
   errorPosts |-> [t \in TxIds |-> 0],
   captured |-> [d \in Devices |-> NoConfig],
   restored |-> [d \in Devices |-> {}],
   failedCall |-> "none",
   blocked |-> {},
   sinkAnswer |-> "none",
   callback |-> <<>>,
   http |-> NoExchange,
   validation |-> NoValidation]

\* scheduler.New: fireChan is made with cfg.ChannelSize slots
NewScheduler(channelSize) ==
  [pc |-> "run", callbacks |-> EmptyBag, tracking |-> EmptyBag, sentOnClosed |-> FALSE,
   capacity |-> channelSize]

\* the state after construction, the Scheduler apart
InitServices ==
  /\ resp = [t \in TxIds |-> "none"]
  /\ requests = [t \in TxIds |-> NoRequest]
  /\ rows = [t \in TxIds |-> NoRow]
  /\ deviceConfigs = [d \in Devices |-> NoConfig]
  /\ nef = [d \in Devices |-> DeviceDefaultConfig]
  /\ queue = EmptyBag
  /\ running = EmptyBag
  /\ armed = EmptyBag
  /\ timers = {}
  /\ fireChan = <<>>
  /\ hist = InitHist

InitState ==
  /\ InitServices
  /\ sched = NewScheduler(ChannelSize)

Budget(submit, dup, sendFail, nefFail, restart, faults) ==
  [submit |-> submit, dup |-> dup, sendFail |-> sendFail, nefFail |-> nefFail,
   restart |-> restart, storeFail |-> 0, lost |-> 0, postFail |-> 0, faults |-> faults,
   now |-> 0]

\* one request, every kind of fault
Init ==
  /\ InitState
  /\ budget = Budget(1, MaxDup, MaxSendFail, MaxNefFail, MaxRestarts, MaxFaults)

\* two requests, no fault
InitTwo ==
  /\ InitState
  /\ budget = Budget(Len(TxOrder), 0, 0, 0, 0, 0)

\* one request, the Scheduler restarts, no other fault
InitRestart ==
  /\ InitState
  /\ budget = Budget(1, 0, 0, 0, MaxRestarts, MaxRestarts)

\* one request, no fault, the Scheduler is stopped
InitStop ==
  /\ InitState
  /\ budget = Budget(1, 0, 0, 0, 0, 0)

\* two requests, the broker may deliver events again
InitTwoDup ==
  /\ InitState
  /\ budget = Budget(Len(TxOrder), MaxDup, 0, 0, 0, MaxFaults)

\* one request, no fault, the handler that arms a timer runs statement by statement
InitTimers ==
  /\ InitState
  /\ budget = Budget(1, 0, 0, 0, 0, 0)

\* two requests, a stored original state may disappear, no other fault
InitLost ==
  /\ InitState
  /\ budget = [Budget(Len(TxOrder), 0, 0, 0, 0, MaxLost) EXCEPT !.lost = MaxLost]

\* one request, store calls of the Worker may fail, no other fault
InitStore ==
  /\ InitState
  /\ budget = [Budget(1, 0, 0, 0, 0, MaxStoreFail) EXCEPT !.storeFail = MaxStoreFail]

\* two requests, no fault, a fire channel of SmallChannelSize slots
InitFull ==
  /\ InitServices
  /\ sched = NewScheduler(SmallChannelSize)
  /\ budget = Budget(Len(TxOrder), 0, 0, 0, 0, 0)

\* one request, events may be delivered again, the sink may answer anything
InitNotify ==
  /\ InitState
  /\ budget = [Budget(1, MaxDup, 0, 0, 0, MaxDup + MaxPostFail) EXCEPT !.postFail = MaxPostFail]

\* one request with any timePeriod, no fault
InitTime ==
  /\ InitState
  /\ budget = Budget(1, 0, 0, 0, 0, 0)

\* two requests, no fault, time passes and the cleanup worker runs
InitRetention ==
  /\ InitState
  /\ budget = Budget(Len(TxOrder), 0, 0, 0, 0, 0)

\* no request yet
InitServe ==
  /\ InitState
  /\ budget = Budget(0, 0, 0, 0, 0, 0)

Requests ==
  \E t \in TxIds, devs \in DeviceLists, en \in BOOLEAN, he \in BOOLEAN : Submit(t, devs, en, he)

\* requests for one and the same device
RequestsOneDevice ==
  \E t \in TxIds, en \in BOOLEAN, he \in BOOLEAN : Submit(t, <<"d1">>, en, he)

\* requests for one device each, the devices pairwise distinct
RequestsApart ==
  \E t \in TxIds, en \in BOOLEAN, he \in BOOLEAN :
    Submit(t, <<IF t = TxOrder[1] THEN "d1" ELSE "d2">>, en, he)

\* requests with and without a sink
RequestsSink ==
  \E t \in TxIds, devs \in DeviceLists, en \in BOOLEAN, he \in BOOLEAN, sink \in BOOLEAN :
    SubmitTo(t, devs, en, he, sink)

\* requests for one device with any timePeriod, sent at any time
RequestsTimed ==
  \E t \in TxIds, en \in BOOLEAN, tp \in TimePeriods, now \in Times :
    SubmitTimed(t, <<"d1">>, en, tp, now, TRUE)

\* requests whose devices are identified by NAI or by phone number
RequestsIdentified ==
  \E t \in TxIds, devs \in IdentifierLists, en \in BOOLEAN, he \in BOOLEAN :
    Submit(t, devs, en, he)

\* one request through the middleware, with any path and any Authorization header
Serve ==
  /\ hist.http = NoExchange
  /\ \E n \in 0..MaxHeaderLen :
       \E path \in Paths, authorization \in [1..n -> HeaderPieces] :
         hist' = [hist EXCEPT !.http = JWT(path, authorization)]
  /\ UNCHANGED <<resp, requests, rows, deviceConfigs, nef, queue, running, armed, timers, fireChan, budget, sched>>

\* one request put to validatePowerSavingRequest
Validate ==
  /\ ~hist.validation.done
  /\ \E n \in 1..MaxDevices :
       \E devices \in [1..n -> AddressedDevices], cred \in {"nil", "zero", "nonzero"} :
         LET req == [devices |-> devices, sinkCredential |-> cred] IN
         hist' = [hist EXCEPT !.validation = [request |-> req, done |-> TRUE,
                                              error |-> ValidatePowerSavingRequest(req)]]
  /\ UNCHANGED <<resp, requests, rows, deviceConfigs, nef, queue, running, armed, timers, fireChan, budget, sched>>

Broker == \E m \in BagToSet(queue) : Duplicate(m)

Pipeline ==
  \/ \E m \in BagToSet(queue) : HandleScheduleRequested(m)
  \/ \E m \in BagToSet(queue) : HandleAllDevicesCompleted(m)
  \/ \E k \in BagToSet(armed) : EnqueueScheduleAction(k)
  \/ FireSchedule
  \/ \E m \in BagToSet(queue) : WorkerReceive(m)
  \/ \E h \in BagToSet(running), res \in {"ok", "getFail", "setFail", "storeFail"} : WorkerOperate(h, res)
  \/ \E h \in BagToSet(running) : WorkerRecord(h)
  \/ \E h \in BagToSet(running) : WorkerElect(h)
  \/ \E h \in BagToSet(running), sent \in BOOLEAN : WorkerPublish(h, sent)
  \/ \E h \in BagToSet(running) : WorkerMark(h)
  \/ \E m \in BagToSet(queue), outcome \in PostOutcomes : NotifierHandle(m, outcome)

Next == Requests \/ Broker \/ Pipeline \/ Restart

NextTwo == Requests \/ Pipeline

NextLive == Requests \/ Broker \/ Pipeline

NextRestart == Requests \/ Pipeline \/ Restart

Callbacks ==
  \/ \E k \in BagToSet(armed) : TimerFires(k)
  \/ \E c \in BagToSet(sched.callbacks), chosen \in {"send", "stop", "default"} : EnqueueSelect(c, chosen)

Handlers ==
  \/ \E m \in BagToSet(queue) : ArmStartTimer(m)
  \/ \E k \in BagToSet(sched.tracking) : TrackTimer(k)

NextTimers == Requests \/ Pipeline \/ Handlers

Database == \E d \in Devices : LoseOriginalState(d)

NextLost == Requests \/ Pipeline \/ Database

StoreFaults ==
  \/ \E m \in BagToSet(queue) : WorkerReceiveFails(m)
  \/ \E h \in BagToSet(running) : WorkerRecordFails(h)

NextStore == Requests \/ Pipeline \/ StoreFaults

NextFull == RequestsApart \/ Pipeline \/ Callbacks

NextNotify == RequestsSink \/ Broker \/ Pipeline

NextTime == RequestsTimed \/ Pipeline

NextIdentified == RequestsIdentified \/ Pipeline

Retention == Tick \/ RunCleanup

NextRetention == RequestsApart \/ Pipeline \/ Retention

NextStop == Requests \/ Pipeline \/ Callbacks \/ Stop

NextTwoDup == RequestsOneDevice \/ Broker \/ Pipeline

\* the services keep running: a delivery, a handler step, a timer or a pool
\* worker that can go on does go on
Fairness == WF_vars(Pipeline)

Spec == Init /\ [][Next]_vars

\* two requests, to see them meet in the store
SpecTwo == InitTwo /\ [][NextTwo]_vars

\* the Scheduler keeps running
SpecLive == Init /\ [][NextLive]_vars /\ Fairness

\* the handler that arms a timer interleaves with the timer's callback
SpecTimers == InitTimers /\ [][NextTimers]_vars

\* two requests while a stored original state may disappear
SpecLost == InitLost /\ [][NextLost]_vars

\* one request while the Worker's store calls may fail
SpecStore == InitStore /\ [][NextStore]_vars

\* runnable goroutines run: the services' handlers and the pool workers
\* (Pipeline), the timer callbacks (Callbacks)
FairnessFull == WF_vars(Pipeline) /\ WF_vars(Callbacks)

\* timer callbacks against a fire channel that fills up
SpecFull == InitFull /\ [][NextFull]_vars /\ FairnessFull

\* the Notifier against a sink that may answer anything, or no sink
SpecNotify == InitNotify /\ [][NextNotify]_vars

\* one request with any timePeriod
SpecTime == InitTime /\ [][NextTime]_vars

\* two requests whose devices are resolved, no fault
SpecIdentified == InitTwo /\ [][NextIdentified]_vars

\* the format validation alone
SpecValidate == InitServe /\ [][Validate]_vars

\* the middleware alone
SpecServe == InitServe /\ [][Serve]_vars

\* two requests while time passes and the cleanup worker runs
SpecRetention == InitRetention /\ [][NextRetention]_vars

\* Stop runs while timer callbacks are running
SpecStop == InitStop /\ [][NextStop]_vars

\* two requests for the same device, and re-deliveries
SpecTwoDup == InitTwoDup /\ [][NextTwoDup]_vars

\* the Scheduler restarts, nothing else goes wrong
SpecRestart == InitRestart /\ [][NextRestart]_vars /\ Fairness


\* ---------------------------------------------------------------- properties
Completed(t) == rows[t] # NoRow /\ rows[t].status = "completed"

Accepted(t) == resp[t] = "202"

ScheduledPhases(t) == IF requests[t].hasEnd THEN {"start", "end"} ELSE {"start"}

\* a device's action status goes pending -> in-progress -> success | failed
\* (an end action starts absent), or stays as it is
StatusStep(old, new) ==
  \/ new = old
  \/ old \in {"none", "pending"} /\ new = "in-progress"
  \/ old = "in-progress" /\ new \in Terminal

\* the phase has been processed for all devices and its completion detected
PhaseCompleted(row, a) == AllTerminal(row, a) /\ row.actionNotified[a]

\* C1: for every transaction and action at most one UpdateDeviceActionStatus call
\* returns allCompleted = true, and at most one AllDevicesCompleted is published
C1_AtMostOneElectionWin ==
  \A k \in KeySet : hist.allCompleted[k] <= 1 /\ hist.published[k] <= 1

\* C1 witness: one call won the election and a later call that also saw every
\* device terminal lost it
C1_Witness ==
  \E k \in KeySet : hist.allCompleted[k] = 1 /\ hist.lostElection[k]

\* C2: for every transaction and action the DeviceActuationRequest events are
\* fanned out at most once, however often the fire procedure runs
C2_FanOutAtMostOnce ==
  \A k \in KeySet : hist.fanouts[k] <= 1

\* C3: each deviceId is referenced by at most one transaction whose status is
\* Pending or Processing
C3_OneActiveTransactionPerDevice ==
  \A d \in Devices :
    Cardinality({t \in TxIds : /\ rows[t] # NoRow
                               /\ rows[t].status \in ActiveStatus
                               /\ d \in Range(rows[t].devices)}) <= 1

\* C4: a device's action status only moves Pending -> InProgress -> (Success |
\* Failed); once terminal no Worker run changes it
C4_ActionStatusMonotonic ==
  [][\A t \in TxIds : \A a \in Actions :
       rows[t] # NoRow =>
         \A i \in DOMAIN rows[t].devices :
           StatusStep(rows[t].deviceAction[a][i], rows'[t].deviceAction[a][i])]_vars

\* C5: an end timer is armed only in states where every device of the
\* transaction has a start action status of Success or Failed
C5_EndArmedAfterStartTerminal ==
  [][\A t \in TxIds :
       CopiesIn(Key(t, "end"), armed') > CopiesIn(Key(t, "end"), armed)
         => AllTerminal(rows[t], "start")]_vars

\* C6: while the Scheduler keeps running, every accepted request eventually has
\* every device terminal for every scheduled phase, an AllDevicesCompleted
\* published and a callback attempted for each phase, and status Completed
C6_EventuallyCompleted ==
  \A t \in TxIds :
    Accepted(t) ~> (/\ Completed(t)
                    /\ \A a \in ScheduledPhases(t) :
                         /\ AllTerminal(rows[t], a)
                         /\ hist.published[Key(t, a)] >= 1
                         /\ hist.posts[Key(t, a)] >= 1)

\* C7: when the Scheduler restarts while a transaction with endAt is active,
\* every remaining phase still fires and the transaction reaches Completed
C7_RestartCompletes ==
  \A t \in TxIds : (Accepted(t) /\ requests[t].hasEnd) ~> Completed(t)

\* C8: on startup recovery arms, for each pending transaction, a start timer
\* exactly when the start phase has not completed and an end timer exactly
\* when endAt is set, the start phase has completed and the end phase has not
C8_RecoveryArmsByPhase ==
  [][budget'.restart < budget.restart =>
       \A t \in GetPendingTransactions :
         /\ Key(t, "start") \in timers' <=> ~PhaseCompleted(rows[t], "start")
         /\ Key(t, "end") \in timers' <=> /\ rows[t].hasEnd
                                          /\ PhaseCompleted(rows[t], "start")
                                          /\ ~PhaseCompleted(rows[t], "end")]_vars

\* C9: however often one ScheduleRequested event is handled, there is exactly
\* one transaction row, created once and never replaced, and the handler armed
\* exactly one start timer; without a restart the start phase is enqueued at
\* most once
C9_ScheduleRequestedIdempotent ==
  \A t \in TxIds :
    hist.srHandled[t] >= 1 =>
      /\ rows[t] # NoRow
      /\ hist.created[t] = 1
      /\ hist.srArmed[t] = 1
      /\ budget.restart = MaxRestarts => hist.enq[Key(t, "start")] <= 1

\* C9 witness: the event was handled twice and the start phase was enqueued
C9_Witness ==
  \E t \in TxIds :
    /\ hist.srHandled[t] >= 2
    /\ hist.created[t] = 1
    /\ hist.enq[Key(t, "start")] = 1

\* C10: for every transaction and action the Notifier sends at most one
\* completion callback POST
C10_AtMostOneCallback ==
  \A k \in KeySet : hist.posts[k] <= 1

\* C11: when an enabled=true transaction captured configuration c on device d and
\* applied power-saving, every SetDeviceConfig call by which an enabled=false
\* transaction restores d passes exactly c
C11_RoundTrip ==
  \A d \in Devices :
    hist.captured[d] # NoConfig => \A c \in hist.restored[d] : c = hist.captured[d]

\* C12: the DeviceOriginalState stored for a device is never the power-saving
\* configuration the system itself applied
C12_OriginalStateNeverApplied ==
  \A d \in Devices : deviceConfigs[d] # PowerSavingConfig

\* C13: a Submit with enabled=false for which some device has no
\* DeviceOriginalState answers 400 and publishes nothing; when every device has
\* one (and no device is repeated) it does not answer 400
C13_DisableNeedsOriginalState ==
  [][\A t \in TxIds :
       (resp[t] = "none" /\ resp'[t] # "none" /\ ~requests'[t].enabled) =>
         IF CheckDeviceConfigsExist(Range(requests'[t].devices)) # {}
         THEN resp'[t] = "400" /\ queue' = queue
         ELSE ~HasDuplicate(requests'[t].devices) => resp'[t] # "400"]_vars

\* C13 witness: an enabled=false request without repeated devices was answered 400
C13_Witness ==
  \E t \in TxIds :
    resp[t] = "400" /\ ~requests[t].enabled /\ ~HasDuplicate(requests[t].devices)

C15_ExactlyOneCompletionEvent ==
  \A k \in KeySet :
    (rows[k.t] # NoRow /\ AllTerminal(rows[k.t], k.a)) ~> (hist.published[k] = 1)

\* C16: once a transaction is Completed or Failed, no step changes its status or
\* the action statuses of its devices
C16_TerminalStatusFrozen ==
  [][\A t \in TxIds :
       (rows[t] # NoRow /\ rows[t].status \in {"completed", "failed"}) =>
         /\ rows'[t].status = rows[t].status
         /\ rows'[t].deviceAction = rows[t].deviceAction]_vars

C18_CompletedFlagsSet ==
  \A t \in TxIds : \A a \in Actions :
    (rows[t] # NoRow /\ PhaseCompleted(rows[t], a)) => rows[t].actionCompleted[a]

\* C19: a fire claims and fans out only for a transaction whose status is Pending
\* or Processing and whose completed flag for the action is false
C19_ClaimOnlyActive ==
  [][\A k \in KeySet :
       hist'.fanouts[k] > hist.fanouts[k] =>
         rows[k.t].status \in ActiveStatus /\ ~rows[k.t].actionCompleted[k.a]]_vars

\* C20: enqueueScheduleAction never sends on the fire channel after Stop closed it
C20_NoSendOnClosedChannel == ~sched.sentOnClosed

\* C21: the timer map holds only timers that have not fired or whose callback is
\* still running: after a timer's callback has run the map has no entry for its key
C21_TimerMapHoldsPending ==
  \A k \in timers :
    k \in BagToSet(armed) \/ \E c \in BagToSet(sched.callbacks) : c.k = k

\* C22: on one Scheduler instance at most one end timer is armed and at most one
\* end-phase firing is enqueued for a transaction, also when
\* AllDevicesCompleted(start) is delivered again
C22_EndArmedOnce ==
  \A t \in TxIds :
    budget.restart = MaxRestarts =>
      CopiesIn(Key(t, "end"), armed) + hist.enq[Key(t, "end")] <= 1

\* C23: a ScheduleRequested handled for a transaction whose row already exists is
\* acknowledged and emits no PowerSavingError
C23_ReplayLogsAndContinues ==
  [][\A m \in BagToSet(queue) :
       (m.type = "SR" /\ rows[m.t] # NoRow /\ hist'.srHandled[m.t] > hist.srHandled[m.t]) =>
         /\ CopiesIn(m, queue') < CopiesIn(m, queue)
         /\ CopiesIn(Msg("PSE", "notifier", m.t, "start", "-", FALSE), queue')
              = CopiesIn(Msg("PSE", "notifier", m.t, "start", "-", FALSE), queue)]_vars

C25_EnabledOfPhase ==
  [][\A t \in TxIds : \A a \in Actions :
       hist'.fanouts[Key(t, a)] > hist.fanouts[Key(t, a)] =>
         LET en == IF a = "start" THEN rows[t].enabled ELSE ~rows[t].enabled
             expected == {Msg("DAR", "worker", t, a, rows[t].devices[i], en) :
                            i \in DOMAIN rows[t].devices}
         IN \A m \in BagToSet(queue') \cup expected :
              CopiesIn(m, queue') - CopiesIn(m, queue) = IF m \in expected THEN 1 ELSE 0]_vars

\* the end phase of a disabling transaction with two devices has fanned out
C25_Witness ==
  \E t \in TxIds :
    /\ rows[t] # NoRow
    /\ ~rows[t].enabled
    /\ Len(rows[t].devices) = 2
    /\ hist.fanouts[Key(t, "end")] >= 1

\* C26: a restore that finds no DeviceOriginalState for its device makes no
\* SetDeviceConfig call and ends with the final status Failed; the Worker records
\* Failed for the device, the event is not delivered again, and when every device
\* of the phase is then Success or Failed the run goes on to the election
C26_RestoreWithoutState ==
  [][\A h \in BagToSet(running) :
       CopiesIn(h, running') < CopiesIn(h, running) =>
         LET m == h.msg
             restore == (m.a = "start" /\ ~m.enabled) \/ (m.a = "end" /\ m.enabled)
             i == IndexOf(rows[m.t].devices, m.d)
             failed == Handler(m, "record", "failed")
         IN /\ (h.pc = "operate" /\ restore /\ deviceConfigs[m.d] = NoConfig) =>
                 /\ nef' = nef
                 /\ CopiesIn(failed, running') > CopiesIn(failed, running)
                 /\ queue' = queue
            /\ (h.pc = "record" /\ h.finalStatus = "failed") =>
                 /\ rows'[m.t].deviceAction[m.a][i] = "failed"
                 /\ queue' = queue
                 /\ (\A j \in DOMAIN rows'[m.t].devices :
                        rows'[m.t].deviceAction[m.a][j] \in {"success", "failed"})
                      => CopiesIn(Handler(m, "elect", "failed"), running')
                           > CopiesIn(Handler(m, "elect", "failed"), running)]_vars

\* a restore ran for a device whose original state was gone: the device is Failed,
\* its NEF configuration is the one the restore found, the phase's
\* AllDevicesCompleted was published and the event is in no queue
C26_Witness ==
  \E t \in TxIds :
    /\ rows[t] # NoRow
    /\ ~rows[t].enabled
    /\ budget.lost < MaxLost
    /\ \E i \in DOMAIN rows[t].devices :
         /\ rows[t].deviceAction["start"][i] = "failed"
         /\ deviceConfigs[rows[t].devices[i]] = NoConfig
    /\ hist.published[Key(t, "start")] = 1
    /\ \A m \in BagToSet(queue) : ~(m.type = "DAR" /\ m.t = t /\ m.a = "start")

\* C27: in a (start, enabled) run, when GetDeviceConfig fails no SetDeviceConfig is
\* made and no original state is written; when SetDeviceConfig fails the
\* configuration read stays stored as original state; in both cases the final
\* status is Failed and Failed is what the Worker records for the device
C27_CaptureOrApplyFails ==
  [][\A h \in BagToSet(running) :
       CopiesIn(h, running') < CopiesIn(h, running) =>
         LET m == h.msg
             failed == Handler(m, "record", "failed")
         IN /\ (h.pc = "operate" /\ m.a = "start" /\ m.enabled
                   /\ budget'.nefFail < budget.nefFail) =>
                 /\ nef' = nef
                 /\ CopiesIn(failed, running') > CopiesIn(failed, running)
                 /\ hist'.failedCall = "GetDeviceConfig" => deviceConfigs' = deviceConfigs
                 /\ hist'.failedCall = "SetDeviceConfig" =>
                      deviceConfigs' = [deviceConfigs EXCEPT ![m.d] = nef[m.d]]
            /\ (h.pc = "record" /\ m.a = "start" /\ m.enabled /\ h.finalStatus = "failed") =>
                 rows'[m.t].deviceAction["start"][IndexOf(rows[m.t].devices, m.d)] = "failed"]_vars

\* SetDeviceConfig failed in a (start, enabled) run: the device is Failed, its NEF
\* configuration is untouched and the configuration read is stored
C27_Witness ==
  \E t \in TxIds :
    /\ rows[t] # NoRow
    /\ rows[t].enabled
    /\ hist.failedCall = "SetDeviceConfig"
    /\ \E i \in DOMAIN rows[t].devices :
         /\ rows[t].deviceAction["start"][i] = "failed"
         /\ nef[rows[t].devices[i]] = DeviceDefaultConfig
         /\ deviceConfigs[rows[t].devices[i]] = DeviceDefaultConfig

\* C28: when a store call fails while the Worker handles a DeviceActuationRequest,
\* the handler ends there with an error: the run does not go on, no row changes,
\* and the event is with the broker again
C28_StoreFailureReturnsError ==
  [][budget'.storeFail < budget.storeFail =>
       /\ rows' = rows
       /\ \A h \in BagToSet(running') : CopiesIn(h, running') <= CopiesIn(h, running)
       /\ \A h \in BagToSet(running) :
            CopiesIn(h, running') < CopiesIn(h, running) =>
              CopiesIn(h.msg, queue') > CopiesIn(h.msg, queue)]_vars

\* C29: a fan-out in which the publish for a device fails produces a
\* PowerSavingError event for the transaction and the action
C29_ErrorsProducePowerSavingError ==
  [][\A t \in TxIds : \A a \in Actions :
       (hist'.fanouts[Key(t, a)] > hist.fanouts[Key(t, a)] /\ budget'.sendFail < budget.sendFail) =>
         CopiesIn(Msg("PSE", "notifier", t, a, "-", FALSE), queue')
           > CopiesIn(Msg("PSE", "notifier", t, a, "-", FALSE), queue)]_vars

\* C30: a fan-out attempts a publish for every device of the transaction whatever
\* the number of publishes that fail: every device whose publish did not fail has
\* its DeviceActuationRequest in the queue, and the fire changes no row
C30_FanOutContinues ==
  [][\A t \in TxIds : \A a \in Actions :
       hist'.fanouts[Key(t, a)] > hist.fanouts[Key(t, a)] =>
         /\ rows' = rows
         /\ \E lost \in SUBSET (DOMAIN rows[t].devices) :
              /\ Cardinality(lost) = budget.sendFail - budget'.sendFail
              /\ \A i \in DOMAIN rows[t].devices :
                   LET m == Msg("DAR", "worker", t, a, rows[t].devices[i],
                                IF a = "start" THEN rows[t].enabled ELSE ~rows[t].enabled)
                   IN CopiesIn(m, queue') - CopiesIn(m, queue) = IF i \in lost THEN 0 ELSE 1]_vars

\* the publish for the first of two devices failed and the second device's event
\* was published and handled: the first device is still pending, with no event
\* for it anywhere
C30_Witness ==
  \E t \in TxIds :
    /\ rows[t] # NoRow
    /\ Len(rows[t].devices) = 2
    /\ hist.fanouts[Key(t, "start")] = 1
    /\ budget.sendFail < MaxSendFail
    /\ rows[t].deviceAction["start"][1] = "pending"
    /\ rows[t].deviceAction["start"][2] \in Terminal
    /\ \A m \in BagToSet(queue) : ~(m.type = "DAR" /\ m.d = rows[t].devices[1])
    /\ \A h \in BagToSet(running) : h.msg.d # rows[t].devices[1]

\* C31: while the Scheduler is not stopped, the action of a timer that has fired is
\* not dropped: its callback waits while the fire channel is full, and the action
\* is eventually taken from the channel and fanned out by a pool worker
C31_FiredActionProcessed ==
  \A k \in KeySet :
    (\E c \in BagToSet(sched.callbacks) : c.k = k) ~> (hist.fanouts[k] >= 1)

\* a callback found the channel full and waited, and its action was fanned out
C31_Witness ==
  \E k \in hist.blocked : hist.fanouts[k] >= 1 /\ hist.enq[k] = 1

\* C32: when Stop returns, every timer has been stopped and the timer map is empty
C32_StopLeavesNoTimer ==
  [][(sched.pc = "stopped" /\ sched'.pc = "returned") =>
       (timers' = {} /\ armed' = EmptyBag)]_vars

\* C33: a Notifier handler that has attempted its POST acknowledges the event
\* whatever the sink answered, so the event is not delivered again; with an empty
\* sink it acknowledges the event and sends nothing
C33_NotifierAlwaysAcknowledges ==
  [][\A m \in BagToSet(queue) :
       LET posts(h) == IF m.type = "ADC" THEN h.posts[Key(m.t, m.a)] ELSE h.errorPosts[m.t]
       IN /\ (m.to = "notifier" /\ posts(hist') > posts(hist)) =>
               (requests[m.t].sink /\ CopiesIn(m, queue') = CopiesIn(m, queue) - 1)
          /\ (m.to = "notifier" /\ ~requests[m.t].sink /\ CopiesIn(m, queue') < CopiesIn(m, queue)) =>
               hist' = hist]_vars

\* the sink answered a completion callback with something else than 2xx and the
\* event is gone from the queue
C33_Witness ==
  /\ hist.sinkAnswer \in {"410", "429", "404", "500", "transport"}
  /\ \E k \in KeySet : hist.posts[k] = 1 /\ Msg("ADC", "notifier", k.t, k.a, "-", FALSE) \notin BagToSet(queue)

\* C34: the per-device statuses of a completion callback for a transaction equal
\* what Query returns for it from the same store state
C34_CallbackEqualsQuery ==
  [][\A k \in KeySet :
       hist'.posts[k] > hist.posts[k] =>
         hist'.callback = GetPowerSaving(k.t).activationStatus]_vars

\* C35: Query answers NOT_FOUND when the transaction has no row; otherwise it
\* returns one entry per device, in the order of the device list, whose status is
\* the end action's status if the end action exists, and otherwise comes from the
\* start action: Success gives InProgress when endAt is set and Success when it
\* is not, Failed gives Failed, InProgress and Pending stay
C35_QueryProjection ==
  \A t \in TxIds :
    LET answer == GetPowerSaving(t)
        shown(x) == CASE x = "success" -> "Success"
                      [] x = "failed" -> "Failed"
                      [] x = "in-progress" -> "InProgress"
                      [] x = "pending" -> "Pending"
    IN IF rows[t] = NoRow
       THEN answer.code = "404"
       ELSE /\ answer.code = "200"
            /\ Len(answer.activationStatus) = Len(rows[t].devices)
            /\ \A i \in DOMAIN rows[t].devices :
                 LET st == rows[t].deviceAction["start"][i]
                     en == rows[t].deviceAction["end"][i]
                 IN /\ answer.activationStatus[i].device = rows[t].devices[i]
                    /\ answer.activationStatus[i].status =
                         IF en # "none" THEN shown(en)
                         ELSE IF st = "success" /\ rows[t].hasEnd THEN "InProgress"
                         ELSE shown(st)

\* two devices of a transaction with endAt: the first succeeded in the start phase
\* and has no end action yet, the second failed its end action
C35_Witness ==
  \E t \in TxIds :
    /\ rows[t] # NoRow
    /\ rows[t].hasEnd
    /\ Len(rows[t].devices) = 2
    /\ rows[t].deviceAction["start"][1] = "success"
    /\ rows[t].deviceAction["end"][1] = "none"
    /\ rows[t].deviceAction["end"][2] = "failed"
    /\ GetPowerSaving(t).activationStatus[1].status = "InProgress"
    /\ GetPowerSaving(t).activationStatus[2].status = "Failed"

\* C36: a Submit whose devices pass admission is rejected with 400 when it has a
\* timePeriod whose endAt is not after startAt or whose startAt and endAt are both
\* in the past, and is accepted otherwise, also when startAt alone is in the
\* past; the start timer of a request whose startAt is in the past, or that has no
\* timePeriod, is armed with delay 0, and a request with no timePeriod gets a row
\* without end phase
C36_TimePeriodChecks ==
  [][\A t \in TxIds :
       LET r == requests'[t]
           tp == r.timePeriod
           endNotAfter == tp # NoPeriod /\ tp.endAt # NoEnd /\ tp.endAt <= tp.startAt
           bothPast == tp # NoPeriod /\ tp.endAt # NoEnd /\ tp.startAt < r.now /\ tp.endAt < r.now
       IN /\ (resp'[t] # resp[t] /\ Admission(r.devices, r.enabled) = "ok") =>
               resp'[t] = IF endNotAfter \/ bothPast THEN "400" ELSE "202"
          /\ hist'.srArmed[t] > hist.srArmed[t] =>
               /\ (tp = NoPeriod \/ tp.startAt < r.now) => hist'.startDelay[t] = 0
               /\ tp = NoPeriod => ~rows'[t].hasEnd]_vars

\* a request whose startAt is in the past and whose endAt is not was accepted and
\* its start phase has fanned out; its start timer had delay 0
C36_Witness ==
  \E t \in TxIds :
    /\ resp[t] = "202"
    /\ requests[t].timePeriod # NoPeriod
    /\ requests[t].timePeriod.startAt < requests[t].now
    /\ requests[t].timePeriod.endAt >= requests[t].now
    /\ hist.srArmed[t] = 1
    /\ hist.startDelay[t] = 0
    /\ hist.fanouts[Key(t, "start")] = 1

\* C37: a request in which two devices resolve to the same NAI is answered 400, and
\* every row has pairwise distinct device ids, one per device of its request,
\* which was accepted
C37_DistinctDevices ==
  \A t \in TxIds :
    LET ids == requests[t].devices
    IN /\ (resp[t] # "none" /\ \E i, j \in DOMAIN ids : i # j /\ ids[i] = ids[j]) => resp[t] = "400"
       /\ rows[t] # NoRow =>
            /\ \A i, j \in DOMAIN rows[t].devices : i # j => rows[t].devices[i] # rows[t].devices[j]
            /\ Len(rows[t].devices) = Len(requests[t].identifiers)
            /\ resp[t] = "202"

\* a request naming one device by its NAI and by a phone number that resolves to
\* that NAI was answered 400, and another request has a row with two devices
C37_Witness ==
  \E t, u \in TxIds :
    /\ resp[t] = "400"
    /\ requests[t].enabled
    /\ requests[t].identifiers[1] # requests[t].identifiers[2]
    /\ requests[t].devices[1] = requests[t].devices[2]
    /\ rows[t] = NoRow
    /\ rows[u] # NoRow
    /\ Len(rows[u].devices) = 2

\* C38: retention deletes a transaction only when its status is completed or
\* failed and its updatedAt is before now minus the retention period, and a run
\* that deletes anything deletes every such transaction; a pending or
\* processing transaction is never deleted, whatever its age
C38_RetentionDeletesOnlyOldTerminal ==
  [][ \A t \in TxIds :
        (rows[t] # NoRow /\ rows'[t] = NoRow) =>
          /\ rows[t].status \in {"completed", "failed"}
          /\ rows[t].updatedAt < Now - RetentionPeriod
          /\ \A u \in TxIds :
               (/\ rows[u] # NoRow
                /\ rows[u].status \in {"completed", "failed"}
                /\ rows[u].updatedAt < Now - RetentionPeriod) => rows'[u] = NoRow ]_vars

\* one transaction was deleted while a pending one, as old, was kept
C38_Witness ==
  \E t, u \in TxIds :
    /\ rows[t] = NoRow /\ hist.created[t] >= 1
    /\ rows[u] # NoRow /\ rows[u].status = "pending"
    /\ rows[u].updatedAt < Now - RetentionPeriod

\* the header is the word Bearer and one token, and the second of the token's
\* segments is the base64url text of a JSON document with a string sub
BearerWithSub(authorization) ==
  /\ Len(authorization) >= 2
  /\ authorization[1] = Bearer
  /\ LET token == Tail(authorization)
         segments == Split(token, Dot)
     IN /\ Bearer \notin Range(token)
        /\ Len(segments) >= 2
        /\ Len(segments[2]) = 1
        /\ segments[2][1] \in {"subTom", "subEmpty"}

\* C39: for a path other than /healthz the next handler is called, with the
\* token's sub on the context, exactly when the Authorization header is
\* Bearer <token> whose payload segment decodes to JSON with a string sub;
\* otherwise the answer is 400 and the handler is not called; /healthz is
\* passed on without the check
C39_HandlerCalledOnlyForBearerSub ==
  LET x == hist.http IN
  x # NoExchange =>
    IF x.path = "/healthz" THEN x.called /\ ~x.hasSub
    ELSE IF BearerWithSub(x.authorization)
    THEN /\ x.called /\ x.hasSub
         /\ x.sub = Decoded[Split(Tail(x.authorization), Dot)[2][1]].value
    ELSE ~x.called /\ x.code = 400

\* what the texts are: the IPv4 address literals and the IPv6 address literals
IPv4Literals == {"192.0.2.1"}
IPv6Literals == {"2001:db8::1", "::ffff:192.0.2.1"}

\* C40: validatePowerSavingRequest returns an error exactly when some device
\* has a present publicAddress or privateAddress that is no IPv4 literal, or a
\* present ipv6Address that is no IPv6 literal, or the sink credential is
\* present with a zero accessTokenExpiresUtc
C40_ValidationErrorsExactly ==
  LET v == hist.validation IN
  v.done =>
    (v.error <=>
       \/ \E i \in DOMAIN v.request.devices :
            LET d == v.request.devices[i] IN
            \/ d.publicAddress # Absent /\ d.publicAddress \notin IPv4Literals
            \/ d.privateAddress # Absent /\ d.privateAddress \notin IPv4Literals
            \/ d.ipv6Address # Absent /\ d.ipv6Address \notin IPv6Literals
       \/ v.request.sinkCredential = "zero")

====
